---- MODULE Spec2Model ----
(***************************************************************************)
(* Project Management API (src/main.py): three collections of a document   *)
(* store (project, task, note), the create/read handlers over them and the *)
(* keyword search of chat_with_projects.                                   *)
(*                                                                         *)
(* Strings are sequences of one-character strings, so that strip, lower,   *)
(* hex parsing and substring search are computed, not assumed.             *)
(***************************************************************************)
EXTENDS Integers, Sequences, FiniteSets, TLC

VARIABLES project, task, note, resp, req

vars == <<project, task, note, resp, req>>

store == <<project, task, note>>

(***************************************************************************)
(* Bounds of the model.                                                    *)
(***************************************************************************)
\* documents in the store, all collections together
MaxDocs == 4

ChatMaxProjects == 11

\* documents in the store when requests run concurrently
ConcMaxDocs == 3

(***************************************************************************)
(* Program constants.                                                      *)
(***************************************************************************)
ProjectMatchLimit == 10

RelatedCap == 10

OpenTasksLimit == 5

RecentNotesLimit == 3

\* An Optional[...] value: <<>> is None, <<v>> is the value v
None == <<>>

Some(v) == <<v>>

\* Python truthiness of an Optional[str]: None and the empty string are falsy
\* (text is a sequence of characters, a status word an atomic string)
Truthy(opt) == opt # None /\ opt[1] # <<>>

TruthyWord(opt) == opt # None /\ opt[1] # ""

(***************************************************************************)
(* Characters and strings.                                                 *)
(***************************************************************************)
Uppers == <<"A","B","C","D","E","F","G","H","I","J","K","L","M",
            "N","O","P","Q","R","S","T","U","V","W","X","Y","Z">>

Lowers == <<"a","b","c","d","e","f","g","h","i","j","k","l","m",
            "n","o","p","q","r","s","t","u","v","w","x","y","z">>

HexChars == <<"0","1","2","3","4","5","6","7","8","9","a","b","c","d","e","f">>

Whitespace == {" "}

IndexIn(seq, c) == CHOOSE i \in 1..Len(seq) : seq[i] = c

Occurs(seq, c) == \E i \in 1..Len(seq) : seq[i] = c

\* every character a string may hold here
Chars == {Uppers[i] : i \in 1..Len(Uppers)} \cup {Lowers[i] : i \in 1..Len(Lowers)}
            \cup {HexChars[i] : i \in 1..Len(HexChars)} \cup Whitespace

\* the lower-case and upper-case form of each character, tabulated
LowerTable == [c \in Chars |-> IF Occurs(Uppers, c) THEN Lowers[IndexIn(Uppers, c)] ELSE c]

UpperTable == [c \in Chars |-> IF Occurs(Lowers, c) THEN Uppers[IndexIn(Lowers, c)] ELSE c]

LowerChar(c) == LowerTable[c]

UpperChar(c) == UpperTable[c]

\* str.lower()
Lower(s) == [i \in 1..Len(s) |-> LowerChar(s[i])]

\* str.upper(), used to build request inputs only
Upper(s) == [i \in 1..Len(s) |-> UpperChar(s[i])]

\* str.strip(): drop leading and trailing whitespace
Strip(s) ==
    LET keep == {i \in 1..Len(s) : s[i] \notin Whitespace}
    IN  IF keep = {} THEN <<>>
        ELSE LET lo == CHOOSE i \in keep : \A j \in keep : i <= j
                 hi == CHOOSE i \in keep : \A j \in keep : j <= i
             IN  SubSeq(s, lo, hi)

Take(s, n) == SubSeq(s, 1, IF Len(s) < n THEN Len(s) ELSE n)

Min(a, b) == IF a < b THEN a ELSE b

Range(s) == {s[i] : i \in 1..Len(s)}

\* {"$regex": q, "$options": "i"} on a string field, for a pattern of
\* letters, digits and blanks: q occurs in the text, case ignored.
RegexMatchI(text, q) ==
    /\ \E k \in 0..(Len(text) - Len(q)) :
          \A i \in 1..Len(q) : LowerChar(text[k + i]) = LowerChar(q[i])

(***************************************************************************)
(* bson.ObjectId: a fixed number of bytes (twelve in bson, OidBytes here);  *)
(* its string form is two hex digits per byte.                             *)
(***************************************************************************)
OidBytes == 2

\* the value of each hex digit, upper or lower case; -1 for any other character
HexTable ==
    [c \in Chars |-> IF Occurs(HexChars, LowerChar(c))
                     THEN IndexIn(HexChars, LowerChar(c)) - 1 ELSE -1]

IsHexChar(c) == HexTable[c] >= 0

HexVal(c) == HexTable[c]

\* is_valid with the hex check forgotten: any string of the right length
is_valid_length_only(s) == Len(s) = 2 * OidBytes

\* ObjectId.is_valid(s) for a str: two characters per byte, all of them
\* hex digits of either case (what bytes.fromhex accepts)
is_valid(s) ==
    /\ Len(s) = 2 * OidBytes
    /\ \A i \in 1..Len(s) : IsHexChar(s[i])

\* ObjectId(s): the bytes the hex digits spell, upper or lower case alike
ObjectId(s) == [i \in 1..OidBytes |-> 16 * HexVal(s[2 * i - 1]) + HexVal(s[2 * i])]

\* str(oid): lower-case hex
StrOid(oid) ==
    [i \in 1..(2 * Len(oid)) |->
        IF i % 2 = 1 THEN HexChars[(oid[(i + 1) \div 2] \div 16) + 1]
                     ELSE HexChars[(oid[i \div 2] % 16) + 1]]

\* The n-th identifier the store assigns in a collection (tag: 1 project,
\* 2 task, 3 note): distinct per document, and spelled with a hex letter.
NewObjectId(tag, n) ==
    [i \in 1..OidBytes |-> IF i = 1 THEN tag ELSE IF i = OidBytes THEN 160 + n ELSE 0]

\* The same match on an Optional[str] field: None matches no regex
RegexMatchOpt(opt, q) == opt # None /\ RegexMatchI(opt[1], q)

(***************************************************************************)
(* The document store: a collection is the sequence of its documents in    *)
(* insertion order, which is the order find() returns them in.             *)
(***************************************************************************)
ProjectTag == 1

TaskTag == 2

NoteTag == 3

\* datetime.isoformat(): the timestamp as text
Iso(t) == [iso |-> t]

\* The creation instant the store assigns. Instants are only ever compared
\* within one collection (the sort of a project's notes), where a later
\* insert carries a later instant: the insertion count stands for it.
Instant(coll) == Len(coll) + 1

\* create_document(collection, data): the payload's fields plus the
\* store-assigned identifier and creation timestamp, appended
create_document(coll, tag, data) ==
    Append(coll, data @@ [_id |-> NewObjectId(tag, Len(coll) + 1),
                          created_at |-> Instant(coll)])

\* what create_document returns: str(result.inserted_id)
inserted_id(coll, tag) == StrOid(NewObjectId(tag, Len(coll) + 1))

\* db[c].find_one({"_id": oid}): Some(first such document) or None
find_one(coll, oid) ==
    LET hits == {i \in 1..Len(coll) : coll[i]._id = oid}
    IN  IF hits = {} THEN None
        ELSE Some(coll[CHOOSE i \in hits : \A j \in hits : i <= j])

\* serialize_doc: _id as its string, datetimes as ISO text
serialize_doc(doc) == [doc EXCEPT !._id = StrOid(@), !.created_at = Iso(@)]

\* db["task"].count_documents({"project_id": pid, "status": status}):
\* the stored project_id string is compared with pid as a string
count_tasks(tasks, pid, status) ==
    Cardinality({i \in 1..Len(tasks) :
                    tasks[i].project_id = pid /\ tasks[i].status = status})

\* db["note"].count_documents({"project_id": pid})
count_notes(notes, pid) ==
    Cardinality({i \in 1..Len(notes) : notes[i].project_id = pid})

\* the derived count fields of get_project and list_projects
task_counts(tasks, pid) ==
    [open        |-> count_tasks(tasks, pid, "open"),
     in_progress |-> count_tasks(tasks, pid, "in-progress"),
     done        |-> count_tasks(tasks, pid, "done")]

\* the existence check dropped: every well-formed identifier passes
project_exists_unchecked(projects, pid) == TRUE

\* "if not db.project.find_one({_id: ObjectId(project_id)})" is false
project_exists(projects, pid) == find_one(projects, ObjectId(pid)) # None

\* get_documents(collection, filter, limit): find(filter).limit(limit);
\* the filter is given as the set of documents it accepts
get_documents(coll, accepted, limit) ==
    LET Filt(d) == d \in accepted
    IN  Take(SelectSeq(coll, Filt), limit)

(***************************************************************************)
(* Request inputs.                                                         *)
(***************************************************************************)
Urg == <<"U", "r", "g">>

Css == <<"c", "s", "s">>

\* status words are only ever compared for equality: atomic strings
TaskStatuses == {"open", "in-progress", "done", "blocked"}

\* the identifier string of the n-th project the store creates
IdStr(n) == StrOid(NewObjectId(ProjectTag, n))

\* a well-formed identifier the store never assigns
AbsentId == StrOid(NewObjectId(9, 1))

\* the right length, one character no hex digit
NonHexId == [IdStr(1) EXCEPT ![2 * OidBytes] = "z"]

\* hex digits, but too few of them
ShortId == <<"a">>

PidInputs == {IdStr(1), Upper(IdStr(1)), IdStr(2), AbsentId, NonHexId, ShortId}

ProjectInputs ==
    {[name |-> Css, description |-> Some(Css), status |-> "planned", tags |-> <<Css, Urg>>]}

TaskInputs ==
    [project_id : {IdStr(1)}, title : {Urg}, description : {None}, status : TaskStatuses]
    \cup [project_id : PidInputs, title : {Urg}, description : {None}, status : {"open"}]

\* room for one more document
Room == Len(project) + Len(task) + Len(note) < MaxDocs

NoteInputs == [project_id : PidInputs, content : {Urg}]

Messages == {<<" ", "u", "R", " ">>, <<" ", " ">>}

NoResp == [op |-> "none", arg |-> [none |-> TRUE], status |-> 0, body |-> [none |-> TRUE]]

Response(op, arg, status, body) == [op |-> op, arg |-> arg, status |-> status, body |-> body]

InvalidId == [detail |-> "Invalid project id"]

NotFound == [detail |-> "Project not found"]

\* serialize_doc on the result of find_one: None stays None
serialize_opt(optdoc) == IF optdoc = None THEN None ELSE Some(serialize_doc(optdoc[1]))

(***************************************************************************)
(* The handlers, each as one step (all its store calls see one store).     *)
(***************************************************************************)
\* create_project inserting its document twice
create_project_twice ==
    \E p \in ProjectInputs :
        /\ Room
        /\ project' = create_document(create_document(project, ProjectTag, p), ProjectTag, p)
        /\ resp' = Response("create_project", [name |-> p.name], 201,
                [doc |-> serialize_opt(
                    find_one(project', ObjectId(inserted_id(project, ProjectTag))))])
        /\ UNCHANGED <<task, note, req>>

create_project ==
    \E p \in ProjectInputs :
        /\ Room
        /\ project' = create_document(project, ProjectTag, p)
        /\ resp' = Response("create_project", [name |-> p.name], 201,
                [doc |-> serialize_opt(
                    find_one(project', ObjectId(inserted_id(project, ProjectTag))))])
        /\ UNCHANGED <<task, note, req>>

\* the body of get_project once the project was found
project_with_counts(doc, tasks, notes, pid) ==
    serialize_doc(doc) @@ [task_counts |-> task_counts(tasks, pid),
                           notes_count |-> count_notes(notes, pid)]

get_project ==
    \E pid \in PidInputs :
        /\ resp' =
             IF ~is_valid(pid)
             THEN Response("get_project", [project_id |-> pid], 400, InvalidId)
             ELSE IF find_one(project, ObjectId(pid)) = None
             THEN Response("get_project", [project_id |-> pid], 404, NotFound)
             ELSE Response("get_project", [project_id |-> pid], 200,
                     [project |-> project_with_counts(
                         find_one(project, ObjectId(pid))[1], task, note, pid)])
        /\ UNCHANGED <<project, task, note, req>>

create_task ==
    \E p \in TaskInputs :
        /\ Room
        /\ IF ~is_valid(p.project_id)
           THEN /\ resp' = Response("create_task", [project_id |-> p.project_id], 400, InvalidId)
                /\ UNCHANGED task
           ELSE IF ~project_exists(project, p.project_id)
           THEN /\ resp' = Response("create_task", [project_id |-> p.project_id], 404, NotFound)
                /\ UNCHANGED task
           ELSE /\ task' = create_document(task, TaskTag, p)
                /\ resp' = Response("create_task", [project_id |-> p.project_id], 201,
                        [doc |-> serialize_opt(
                            find_one(task', ObjectId(inserted_id(task, TaskTag))))])
        /\ UNCHANGED <<project, note, req>>

create_note ==
    \E p \in NoteInputs :
        /\ Room
        /\ IF ~is_valid(p.project_id)
           THEN /\ resp' = Response("create_note", [project_id |-> p.project_id], 400, InvalidId)
                /\ UNCHANGED note
           ELSE IF ~project_exists(project, p.project_id)
           THEN /\ resp' = Response("create_note", [project_id |-> p.project_id], 404, NotFound)
                /\ UNCHANGED note
           ELSE /\ note' = create_document(note, NoteTag, p)
                /\ resp' = Response("create_note", [project_id |-> p.project_id], 201,
                        [doc |-> serialize_opt(
                            find_one(note', ObjectId(inserted_id(note, NoteTag))))])
        /\ UNCHANGED <<project, task, req>>

\* the limit a list request asks for: its default, or a smaller one
ProjectsDefaultLimit == 100

TasksDefaultLimit == 200

NotesDefaultLimit == 200

\* a listed project: its _id as a string, its counts attached, serialized
\* (the _id is already a string when serialize_doc sees it, and str of a
\* string is that string)
listed_project(doc, tasks, notes) ==
    [doc EXCEPT !._id = StrOid(@), !.created_at = Iso(@)]
        @@ [task_counts |-> task_counts(tasks, StrOid(doc._id)),
            notes_count |-> count_notes(notes, StrOid(doc._id))]

list_projects ==
    \E status \in {None, Some("planned"), Some("active")},
       limit \in {1, ProjectsDefaultLimit} :
        LET Filt(d) == TruthyWord(status) => d.status = status[1]
            docs == get_documents(project, {d \in Range(project) : Filt(d)}, limit)
        IN  /\ resp' = Response("list_projects", [status |-> status, limit |-> limit], 200,
                    [projects |-> [i \in 1..Len(docs) |-> listed_project(docs[i], task, note)]])
            /\ UNCHANGED <<project, task, note, req>>

list_tasks ==
    \E pid \in {None, Some(IdStr(1))}, status \in {None, Some("open")},
       limit \in {1, TasksDefaultLimit} :
        LET Filt(d) == /\ Truthy(pid) => d.project_id = pid[1]
                       /\ TruthyWord(status) => d.status = status[1]
            docs == get_documents(task, {d \in Range(task) : Filt(d)}, limit)
        IN  /\ resp' = Response("list_tasks",
                    [project_id |-> pid, status |-> status, limit |-> limit], 200,
                    [tasks |-> [i \in 1..Len(docs) |-> serialize_doc(docs[i])]])
            /\ UNCHANGED <<project, task, note, req>>

list_notes ==
    \E pid \in {None, Some(IdStr(1))}, limit \in {1, NotesDefaultLimit} :
        LET Filt(d) == Truthy(pid) => d.project_id = pid[1]
            docs == get_documents(note, {d \in Range(note) : Filt(d)}, limit)
        IN  /\ resp' = Response("list_notes", [project_id |-> pid, limit |-> limit], 200,
                    [notes |-> [i \in 1..Len(docs) |-> serialize_doc(docs[i])]])
            /\ UNCHANGED <<project, task, note, req>>

(***************************************************************************)
(* chat_with_projects.                                                     *)
(***************************************************************************)
\* q = (payload.message or "").strip().lower()
normalize(message) == Lower(Strip(message))

\* the $or filter of the project query: name, description or any tag
project_matches_query(p, q) ==
    \/ RegexMatchI(p.name, q)
    \/ RegexMatchOpt(p.description, q)
    \/ \E i \in 1..Len(p.tags) : RegexMatchI(p.tags[i], q)

\* list(db["project"].find({...}).limit(10))
proj_matches(projects, q) ==
    LET Filt(p) == project_matches_query(p, q)
    IN  Take(SelectSeq(projects, Filt), ProjectMatchLimit)

\* db["task"].distinct("project_id", title or description matches)
task_proj_ids(tasks, q) ==
    {tasks[i].project_id : i \in {j \in 1..Len(tasks) :
        RegexMatchI(tasks[j].title, q) \/ RegexMatchOpt(tasks[j].description, q)}}

\* db["note"].distinct("project_id", content matches)
note_proj_ids(notes, q) ==
    {notes[i].project_id : i \in {j \in 1..Len(notes) : RegexMatchI(notes[j].content, q)}}

\* set(list(task_proj_ids) + list(note_proj_ids))
extra_proj_ids(tasks, notes, q) == task_proj_ids(tasks, q) \cup note_proj_ids(notes, q)

\* the orders in which "for pid in extra_proj_ids" may visit a set of
\* strings: a set's iteration order is whatever the string hashes give
IterationOrders(S) ==
    {f \in [1..Cardinality(S) -> S] : \A i, j \in 1..Cardinality(S) : f[i] = f[j] => i = j}

\* the loop over extra_proj_ids, visiting them in the given order: the
\* project of every well-formed identifier that has one
RECURSIVE fetch_extra(_, _)
fetch_extra(projects, order) ==
    IF order = <<>> THEN <<>>
    ELSE LET pid == Head(order)
             found == IF is_valid(pid) THEN find_one(projects, ObjectId(pid)) ELSE None
         IN  found \o fetch_extra(projects, Tail(order))

\* the "deduplicate" loop left out
unique_projects_keep_all(docs) == docs

\* the "deduplicate" loop: the first document of every identifier string
unique_projects(docs) ==
    LET Filt(i) == \A j \in 1..(i - 1) : StrOid(docs[j]._id) # StrOid(docs[i]._id)
        keep == SelectSeq([i \in 1..Len(docs) |-> i], Filt)
    IN  [k \in 1..Len(keep) |-> docs[keep[k]]]

\* find({"project_id": pid, "status": {"$in": ["open", "in-progress"]}}).limit(5)
open_tasks(tasks, pid) ==
    LET Filt(t) == t.project_id = pid /\ t.status \in {"open", "in-progress"}
    IN  Take(SelectSeq(tasks, Filt), OpenTasksLimit)

\* find({"project_id": pid}).sort("created_at", -1): newest first (the
\* instants of one collection are distinct)
notes_newest_first(notes, pid) ==
    LET Filt(n) == n.project_id = pid
        mine == SelectSeq(notes, Filt)
        Newer(i) == Cardinality({j \in 1..Len(mine) : mine[j].created_at > mine[i].created_at})
    IN  [k \in 1..Len(mine) |-> mine[CHOOSE i \in 1..Len(mine) : Newer(i) = k - 1]]

\* ....sort("created_at", -1).limit(3)
recent_notes(notes, pid) == Take(notes_newest_first(notes, pid), RecentNotesLimit)

\* one entry of related_projects
related_entry(p, tasks, notes) ==
    LET sp == serialize_doc(p)
        ot == open_tasks(tasks, sp._id)
        rn == recent_notes(notes, sp._id)
    IN  sp @@ [open_tasks   |-> [i \in 1..Len(ot) |-> serialize_doc(ot[i])],
               recent_notes |-> [i \in 1..Len(rn) |-> serialize_doc(rn[i])]]

\* the merge with no cap on the merged list
related_docs_uncapped(projects, tasks, notes, q, order) ==
    unique_projects(proj_matches(projects, q) \o fetch_extra(projects, order))

\* the merge with the task- and note-derived projects put first
related_docs_extras_first(projects, tasks, notes, q, order) ==
    Take(unique_projects(fetch_extra(projects, order) \o proj_matches(projects, q)),
         RelatedCap)

\* the merged, deduplicated and capped list of matched projects
related_docs(projects, tasks, notes, q, order) ==
    Take(unique_projects(proj_matches(projects, q) \o fetch_extra(projects, order)),
         RelatedCap)

\* the ChatResponse for a message, the extra identifiers visited in `order`
chat_response(projects, tasks, notes, message, order) ==
    LET q == normalize(message)
        docs == related_docs(projects, tasks, notes, q, order)
        related == [i \in 1..Len(docs) |-> related_entry(docs[i], tasks, notes)]
    IN  IF q = <<>>
        THEN [reply |-> [kind |-> "ask", count |-> 0, names |-> <<>>],
              related_projects |-> <<>>]
        ELSE IF related = <<>>
        THEN [reply |-> [kind |-> "nothing", count |-> 0, names |-> <<>>],
              related_projects |-> <<>>]
        ELSE [reply |-> [kind |-> "found", count |-> Len(related),
                         names |-> [i \in 1..Min(5, Len(related)) |-> related[i].name]],
              related_projects |-> related]

\* every response chat_with_projects may give to a message
chat_responses(projects, tasks, notes, message) ==
    {chat_response(projects, tasks, notes, message, order) :
        order \in IterationOrders(extra_proj_ids(tasks, notes, normalize(message)))}

chat_with_projects ==
    \E m \in Messages :
        \E r \in chat_responses(project, task, note, m) :
            /\ resp' = Response("chat", [message |-> m], 200, r)
            /\ UNCHANGED <<project, task, note, req>>

Init ==
    /\ project = <<>>
    /\ task = <<>>
    /\ note = <<>>
    /\ resp = NoResp
    /\ req = <<>>

Next ==
    \/ create_project
    \/ create_task
    \/ create_note
    \/ list_projects
    \/ get_project
    \/ list_tasks
    \/ list_notes
    \/ chat_with_projects

Spec == Init /\ [][Next]_vars

(***************************************************************************)
(* The search over larger stores: every store below is one the create      *)
(* handlers can build (documents inserted one after the other, every task  *)
(* and note naming a project that was there), and chat_with_projects is    *)
(* applied to it.                                                          *)
(***************************************************************************)
RECURSIVE Inserted(_, _, _)
\* the collection after create_document of each payload in turn
Inserted(coll, tag, payloads) ==
    IF payloads = <<>> THEN coll
    ELSE Inserted(create_document(coll, tag, Head(payloads)), tag, Tail(payloads))

\* matched by its name / only by a tag / only by its description / not at all
ByName == [name |-> Urg, description |-> None, status |-> "active", tags |-> <<>>]

ByTag == [name |-> Css, description |-> Some(Css), status |-> "planned", tags |-> <<Css, Urg>>]

Unmatched == [name |-> Css, description |-> None, status |-> "planned", tags |-> <<Css>>]

SeqsUpTo2(S) == {<<>>} \cup {<<a>> : a \in S} \cup {<<a, b>> : a \in S, b \in S}

SeqsUpTo1(S) == {<<>>} \cup {<<a>> : a \in S}

\* up to two projects of any kind, then any number of one kind
ChatProjectSeqs ==
    {head \o [i \in 1..k |-> filler] :
        head \in SeqsUpTo2({ByName, ByTag, Unmatched}),
        filler \in {ByName, Unmatched},
        k \in 0..(ChatMaxProjects - 2)}

ChatTaskInputs ==
    [project_id : {IdStr(1), Upper(IdStr(1)), IdStr(2)}, title : {Urg, Css},
     description : {None}, status : {"open", "done"}]

ChatNoteInputs == [project_id : {IdStr(1), Upper(IdStr(1)), IdStr(2)}, content : {Urg, Css}]

InitChat ==
    /\ project \in {Inserted(<<>>, ProjectTag, ps) : ps \in ChatProjectSeqs}
    /\ task \in {Inserted(<<>>, TaskTag, ts) : ts \in SeqsUpTo1(ChatTaskInputs)}
    /\ note \in {Inserted(<<>>, NoteTag, ns) : ns \in SeqsUpTo1(ChatNoteInputs)}
    /\ \A i \in 1..Len(task) : project_exists(project, task[i].project_id)
    /\ \A i \in 1..Len(note) : project_exists(project, note[i].project_id)
    /\ resp = NoResp
    /\ req = <<>>

NextChat == chat_with_projects

SpecChat == InitChat /\ [][NextChat]_vars

(***************************************************************************)
(* Concurrent requests: each worker runs one handler at a time, and the    *)
(* handlers of different workers interleave between their store calls.     *)
(* A step is one store call together with the local code around it.        *)
(***************************************************************************)
Workers == {"w1", "w2"}

Idle == [pc |-> "idle", arg |-> [none |-> TRUE], loc |-> [none |-> TRUE]]

ConcProjectInputs == {ByTag}

ConcTaskInputs ==
    [project_id : {IdStr(1)}, title : {Urg}, description : {None}, status : {"open", "done"}]
    \cup [project_id : {Upper(IdStr(1)), AbsentId}, title : {Urg},
          description : {None}, status : {"open"}]

ConcNoteInputs == [project_id : {IdStr(1), IdStr(2), NonHexId}, content : {Urg}]

ConcPidInputs == {IdStr(1), Upper(IdStr(1))}

\* requests that have passed their check and not yet inserted
Inserting == {w \in Workers : req[w].pc \in {"task_insert", "note_insert"}}

ConcRoom == Len(project) + Len(task) + Len(note) + Cardinality(Inserting) < ConcMaxDocs

Goto(w, pc, arg, loc) == req' = [req EXCEPT ![w] = [pc |-> pc, arg |-> arg, loc |-> loc]]

Finish(w, r) == req' = [req EXCEPT ![w] = Idle] /\ resp' = r

\* create_project, line 107: create_document
project_insert(w) ==
    \E p \in ConcProjectInputs :
        /\ req[w].pc = "idle"
        /\ ConcRoom
        /\ project' = create_document(project, ProjectTag, p)
        /\ Goto(w, "project_find", [name |-> p.name],
                [inserted_id |-> inserted_id(project, ProjectTag)])
        /\ UNCHANGED <<task, note, resp>>

\* create_project, lines 108-109: find_one and the response
project_find(w) ==
    /\ req[w].pc = "project_find"
    /\ Finish(w, Response("create_project", req[w].arg, 201,
            [doc |-> serialize_opt(find_one(project, ObjectId(req[w].loc.inserted_id)))]))
    /\ UNCHANGED <<project, task, note>>

\* create_task, lines 145-148: the two checks
task_check(w) ==
    \E p \in ConcTaskInputs :
        /\ req[w].pc = "idle"
        /\ ConcRoom
        /\ IF ~is_valid(p.project_id)
           THEN Finish(w, Response("create_task", [project_id |-> p.project_id], 400, InvalidId))
           ELSE IF ~project_exists(project, p.project_id)
           THEN Finish(w, Response("create_task", [project_id |-> p.project_id], 404, NotFound))
           ELSE Goto(w, "task_insert", p, [none |-> TRUE]) /\ UNCHANGED resp
        /\ UNCHANGED <<project, task, note>>

\* create_task, line 149: create_document
task_insert(w) ==
    /\ req[w].pc = "task_insert"
    /\ task' = create_document(task, TaskTag, req[w].arg)
    /\ Goto(w, "task_find", [project_id |-> req[w].arg.project_id],
            [inserted_id |-> inserted_id(task, TaskTag)])
    /\ UNCHANGED <<project, note, resp>>

\* create_task, lines 150-151: find_one and the response
task_find(w) ==
    /\ req[w].pc = "task_find"
    /\ Finish(w, Response("create_task", req[w].arg, 201,
            [doc |-> serialize_opt(find_one(task, ObjectId(req[w].loc.inserted_id)))]))
    /\ UNCHANGED <<project, task, note>>

\* create_note, lines 165-168: the two checks
note_check(w) ==
    \E p \in ConcNoteInputs :
        /\ req[w].pc = "idle"
        /\ ConcRoom
        /\ IF ~is_valid(p.project_id)
           THEN Finish(w, Response("create_note", [project_id |-> p.project_id], 400, InvalidId))
           ELSE IF ~project_exists(project, p.project_id)
           THEN Finish(w, Response("create_note", [project_id |-> p.project_id], 404, NotFound))
           ELSE Goto(w, "note_insert", p, [none |-> TRUE]) /\ UNCHANGED resp
        /\ UNCHANGED <<project, task, note>>

\* create_note, line 169: create_document
note_insert(w) ==
    /\ req[w].pc = "note_insert"
    /\ note' = create_document(note, NoteTag, req[w].arg)
    /\ Goto(w, "note_find", [project_id |-> req[w].arg.project_id],
            [inserted_id |-> inserted_id(note, NoteTag)])
    /\ UNCHANGED <<project, task, resp>>

\* create_note, lines 170-171: find_one and the response
note_find(w) ==
    /\ req[w].pc = "note_find"
    /\ Finish(w, Response("create_note", req[w].arg, 201,
            [doc |-> serialize_opt(find_one(note, ObjectId(req[w].loc.inserted_id)))]))
    /\ UNCHANGED <<project, task, note>>

\* what the four count queries of get_project give on a store
counts_now(tasks, notes, pid) ==
    [open |-> count_tasks(tasks, pid, "open"),
     in_progress |-> count_tasks(tasks, pid, "in-progress"),
     done |-> count_tasks(tasks, pid, "done"),
     notes |-> count_notes(notes, pid)]

\* get_project, lines 114-120: the checks and find_one. at_start records
\* what the store held when the request started.
get_find(w) ==
    \E pid \in ConcPidInputs :
        /\ req[w].pc = "idle"
        /\ IF ~is_valid(pid)
           THEN Finish(w, Response("get_project", [project_id |-> pid], 400, InvalidId))
           ELSE IF find_one(project, ObjectId(pid)) = None
           THEN Finish(w, Response("get_project", [project_id |-> pid], 404, NotFound))
           ELSE /\ Goto(w, "get_open",
                        [project_id |-> pid, at_start |-> counts_now(task, note, pid)],
                        [doc |-> serialize_doc(find_one(project, ObjectId(pid))[1])])
                /\ UNCHANGED resp
        /\ UNCHANGED <<project, task, note>>

\* get_project, line 122: count of open tasks
get_open(w) ==
    /\ req[w].pc = "get_open"
    /\ Goto(w, "get_in_progress", req[w].arg,
            req[w].loc @@ [open |-> count_tasks(task, req[w].arg.project_id, "open")])
    /\ UNCHANGED <<project, task, note, resp>>

\* get_project, line 123: count of in-progress tasks
get_in_progress(w) ==
    /\ req[w].pc = "get_in_progress"
    /\ Goto(w, "get_done", req[w].arg,
            req[w].loc @@ [in_progress |->
                count_tasks(task, req[w].arg.project_id, "in-progress")])
    /\ UNCHANGED <<project, task, note, resp>>

\* the count of done tasks with the status left out of its filter
get_done_any_status(w) ==
    /\ req[w].pc = "get_done"
    /\ Goto(w, "get_notes", req[w].arg,
            req[w].loc @@ [done |-> Cardinality({i \in 1..Len(task) :
                                        task[i].project_id = req[w].arg.project_id})])
    /\ UNCHANGED <<project, task, note, resp>>

\* get_project, line 124: count of done tasks
get_done(w) ==
    /\ req[w].pc = "get_done"
    /\ Goto(w, "get_notes", req[w].arg,
            req[w].loc @@ [done |-> count_tasks(task, req[w].arg.project_id, "done")])
    /\ UNCHANGED <<project, task, note, resp>>

\* get_project, lines 126-127: count of notes, and the response
get_notes(w) ==
    /\ req[w].pc = "get_notes"
    /\ Finish(w, Response("get_project", req[w].arg, 200,
            [project |-> req[w].loc.doc @@
                [task_counts |-> [open |-> req[w].loc.open,
                                  in_progress |-> req[w].loc.in_progress,
                                  done |-> req[w].loc.done],
                 notes_count |-> count_notes(note, req[w].arg.project_id)]]))
    /\ UNCHANGED <<project, task, note>>

InitConc ==
    /\ project = <<>>
    /\ task = <<>>
    /\ note = <<>>
    /\ resp = NoResp
    /\ req = [w \in Workers |-> Idle]

NextConc ==
    \E w \in Workers :
        \/ project_insert(w)
        \/ project_find(w)
        \/ task_check(w)
        \/ task_insert(w)
        \/ task_find(w)
        \/ note_check(w)
        \/ note_insert(w)
        \/ note_find(w)
        \/ get_find(w)
        \/ get_open(w)
        \/ get_in_progress(w)
        \/ get_done(w)
        \/ get_notes(w)

SpecConc == InitConc /\ [][NextConc]_vars

(***************************************************************************)
(* Vocabulary of the properties, stated apart from the handlers' code.     *)
(***************************************************************************)
HexDigits == {"0","1","2","3","4","5","6","7","8","9",
              "a","b","c","d","e","f","A","B","C","D","E","F"}

\* a well-formed identifier: two hex digits per byte
WellFormed(s) == Len(s) = 2 * OidBytes /\ \A i \in 1..Len(s) : s[i] \in HexDigits

\* the stored project_id string s identifies the project document p
Refers(s, p) == WellFormed(s) /\ ObjectId(s) = p._id

\* the stored tasks / notes that reference the project document p
TasksOf(p) == {i \in 1..Len(task) : Refers(task[i].project_id, p)}

NotesOf(p) == {i \in 1..Len(note) : Refers(note[i].project_id, p)}

\* the last response, when it answers a chat message that is not blank
ChatAnswered == resp.op = "chat" /\ normalize(resp.arg.message) # <<>>

Query == normalize(resp.arg.message)

Related == resp.body.related_projects

\* project document p matches the query directly / through a task / a note
Direct(p) == project_matches_query(p, Query)

ViaTask(p) ==
    \E i \in TasksOf(p) :
        RegexMatchI(task[i].title, Query) \/ RegexMatchOpt(task[i].description, Query)

ViaNote(p) == \E i \in NotesOf(p) : RegexMatchI(note[i].content, Query)

\* the stored project an entry of related_projects stands for
Stored(entry) == CHOOSE p \in Range(project) : StrOid(p._id) = entry._id

\* D: the distinct existing projects the query finds in any of the three ways
Found == {i \in 1..Len(project) :
            Direct(project[i]) \/ ViaTask(project[i]) \/ ViaNote(project[i])}

(***************************************************************************)
(* C1: no two entries of related_projects have the same identifier, also   *)
(* for a project matched directly and through a task and a note.           *)
(***************************************************************************)
C1_NoDuplicateRelated ==
    ChatAnswered =>
        \A i, j \in 1..Len(Related) : Related[i]._id = Related[j]._id => i = j

\* a project matched directly, through a task and through a note is listed
C1_Witness ==
    /\ ChatAnswered
    /\ \E k \in 1..Len(Related) :
          LET p == Stored(Related[k]) IN Direct(p) /\ ViaTask(p) /\ ViaNote(p)

(***************************************************************************)
(* C2: in every state of the concurrent system, every stored task and note *)
(* has a project_id that identifies a project present in the store.        *)
(***************************************************************************)
C2_ReferentialIntegrity ==
    /\ \A i \in 1..Len(task) : \E j \in 1..Len(project) : Refers(task[i].project_id, project[j])
    /\ \A i \in 1..Len(note) : \E j \in 1..Len(project) : Refers(note[i].project_id, project[j])

\* a task is stored under the upper-case spelling while a note request of
\* another worker sits between its check and its insert
C2_Witness ==
    /\ \E i \in 1..Len(task) : task[i].project_id = Upper(IdStr(1))
    /\ \E w \in Workers : req[w].pc = "note_insert"

(***************************************************************************)
(* C3: create_task and create_note answer 400 to a project_id that is not  *)
(* well-formed and 404 to a well-formed one that no project has, and in    *)
(* both cases leave the task and note collections as they were.            *)
(***************************************************************************)
C3_CreateFailures ==
    [][resp'.op \in {"create_task", "create_note"} =>
        LET pid == resp'.arg.project_id
            absent == \A j \in 1..Len(project) : ~Refers(pid, project[j])
        IN  /\ ~WellFormed(pid) =>
                 resp'.status = 400 /\ resp'.body = InvalidId /\ task' = task /\ note' = note
            /\ WellFormed(pid) /\ absent =>
                 resp'.status = 404 /\ resp'.body = NotFound /\ task' = task /\ note' = note
      ]_vars

\* a task is refused for a well-formed identifier no project has, in a
\* store that holds projects and tasks
C3_Witness ==
    /\ resp.op = "create_task" /\ resp.status = 404
    /\ Len(project) > 0 /\ Len(task) > 0

(***************************************************************************)
(* C4: get_project, called with any well-formed string that resolves to    *)
(* the project, returns the numbers of stored tasks referencing it with    *)
(* status open, in-progress and done, and the number of stored notes       *)
(* referencing it.                                                         *)
(***************************************************************************)
C4_CountsMatchReferences ==
    resp.op = "get_project" /\ resp.status = 200 =>
        LET p == CHOOSE d \in Range(project) : Refers(resp.arg.project_id, d)
            N(status) == Cardinality({i \in TasksOf(p) : task[i].status = status})
            got == resp.body.project
        IN  /\ got.task_counts.open = N("open")
            /\ got.task_counts.in_progress = N("in-progress")
            /\ got.task_counts.done = N("done")
            /\ got.notes_count = Cardinality(NotesOf(p))

(***************************************************************************)
(* C5: related_projects lists the directly matched projects first, then    *)
(* those found only through tasks, then those found only through notes: a  *)
(* project found only through a task precedes one found only through a     *)
(* note.                                                                   *)
(***************************************************************************)
C5_SourceOrder ==
    ChatAnswered =>
        \A i, j \in 1..Len(Related) :
            i < j =>
                LET a == Stored(Related[i])
                    b == Stored(Related[j])
                IN  /\ Direct(b) => Direct(a)
                    /\ ~(/\ ~Direct(a) /\ ~ViaTask(a) /\ ViaNote(a)
                         /\ ~Direct(b) /\ ViaTask(b) /\ ~ViaNote(b))

\* C5 as amended: the directly matched projects come first; the projects
\* found only through tasks or notes follow them, in no particular order
C5_DirectFirst ==
    ChatAnswered =>
        \A i, j \in 1..Len(Related) :
            i < j => (Direct(Stored(Related[j])) => Direct(Stored(Related[i])))

\* a directly matched project is listed together with one found otherwise
C5_Witness ==
    /\ ChatAnswered
    /\ \E i, j \in 1..Len(Related) :
          Direct(Stored(Related[i])) /\ ~Direct(Stored(Related[j]))

(***************************************************************************)
(* C6: related_projects has min(10, D) entries, D the number of distinct   *)
(* existing projects the query finds; the "nothing found" reply with no    *)
(* related projects is given exactly when D = 0.                           *)
(***************************************************************************)
C6_RelatedCount ==
    ChatAnswered =>
        /\ Len(Related) = Min(10, Cardinality(Found))
        /\ resp.body.reply.kind = "nothing" <=> Cardinality(Found) = 0
        /\ resp.body.reply.kind = "nothing" => Related = <<>>

\* more than ten projects are found, one of them only through a task or note
C6_Witness ==
    /\ ChatAnswered
    /\ Cardinality(Found) > 10
    /\ Len(Related) = 10
    /\ \E i \in Found : ~Direct(project[i])

(***************************************************************************)
(* C7: open_tasks of an entry holds at most 5 tasks, each referencing the  *)
(* entry's project with status open or in-progress; it holds all such      *)
(* tasks when the project has at most 5, and none when it has none.        *)
(***************************************************************************)
C7_OpenTasks ==
    ChatAnswered =>
        \A k \in 1..Len(Related) :
            LET p == Stored(Related[k])
                ot == Related[k].open_tasks
                mine == {i \in TasksOf(p) : task[i].status \in {"open", "in-progress"}}
            IN  /\ Len(ot) <= 5
                /\ \A n \in 1..Len(ot) :
                      \E i \in mine : StrOid(task[i]._id) = ot[n]._id
                /\ Cardinality(mine) <= 5 =>
                      \A i \in mine : \E n \in 1..Len(ot) : ot[n]._id = StrOid(task[i]._id)
                /\ mine = {} => ot = <<>>

(***************************************************************************)
(* C8: recent_notes of an entry is the min(3, n) most recently created     *)
(* notes referencing the entry's project, newest first.                    *)
(***************************************************************************)
C8_RecentNotes ==
    ChatAnswered =>
        \A k \in 1..Len(Related) :
            LET p == Stored(Related[k])
                rn == Related[k].recent_notes
                mine == NotesOf(p)
                shown == {i \in mine : \E n \in 1..Len(rn) : rn[n]._id = StrOid(note[i]._id)}
            IN  /\ Len(rn) = Min(3, Cardinality(mine))
                /\ Cardinality(shown) = Len(rn)
                /\ \A n \in 1..(Len(rn) - 1) : rn[n].created_at.iso >= rn[n + 1].created_at.iso
                /\ \A i \in shown, j \in mine \ shown :
                      note[j].created_at <= note[i].created_at

(***************************************************************************)
(* C9: a read handler leaves the three collections as they were; a create  *)
(* that succeeds appends one document to its own collection and leaves     *)
(* every document stored before, in all three collections, as it was.      *)
(***************************************************************************)
ReadOps == {"list_projects", "get_project", "list_tasks", "list_notes", "chat"}

Grown(old, new) == Len(new) = Len(old) + 1 /\ SubSeq(new, 1, Len(old)) = old

C9_CreateThenReadOnly ==
    [][/\ resp'.op \in ReadOps => store' = store
       /\ resp'.op = "create_project" /\ resp'.status = 201 =>
            Grown(project, project') /\ task' = task /\ note' = note
       /\ resp'.op = "create_task" /\ resp'.status = 201 =>
            Grown(task, task') /\ project' = project /\ note' = note
       /\ resp'.op = "create_note" /\ resp'.status = 201 =>
            Grown(note, note') /\ project' = project /\ task' = task
      ]_vars

\* a chat was answered over a store holding documents of all three kinds
C9_Witness ==
    /\ resp.op = "chat"
    /\ Len(project) > 0 /\ Len(task) > 0 /\ Len(note) > 0

(***************************************************************************)
(* C10: each count a get_project response returns lies between what the    *)
(* same count query gave on the store when the request started and what it *)
(* gives on the store when the response is produced, whatever creates      *)
(* interleave with it.                                                     *)
(***************************************************************************)
StoredTasks(pid, status) ==
    Cardinality({i \in 1..Len(task) : task[i].project_id = pid /\ task[i].status = status})

StoredNotes(pid) == Cardinality({i \in 1..Len(note) : note[i].project_id = pid})

C10_CountsBracketed ==
    resp.op = "get_project" /\ resp.status = 200 =>
        LET pid == resp.arg.project_id
            was == resp.arg.at_start
            got == resp.body.project
        IN  /\ was.open <= got.task_counts.open
            /\ got.task_counts.open <= StoredTasks(pid, "open")
            /\ was.in_progress <= got.task_counts.in_progress
            /\ got.task_counts.in_progress <= StoredTasks(pid, "in-progress")
            /\ was.done <= got.task_counts.done
            /\ got.task_counts.done <= StoredTasks(pid, "done")
            /\ was.notes <= got.notes_count
            /\ got.notes_count <= StoredNotes(pid)

\* a response whose open count predates a task created meanwhile and whose
\* note count already includes a note created meanwhile
C10_Witness ==
    /\ resp.op = "get_project" /\ resp.status = 200
    /\ resp.body.project.task_counts.open < StoredTasks(resp.arg.project_id, "open")
    /\ resp.arg.at_start.notes < resp.body.project.notes_count

====
